---- MODULE Spec2Model ----
(***************************************************************************)
(* Model of check_rule_ids.py: the rule-identifier conflict check that     *)
(* compares the rule files changed on a branch with origin/main.           *)
(*                                                                         *)
(* Two specifications:                                                     *)
(*   Spec         the run of main(): git diff, the reference index, the    *)
(*                loop over the changed files, the exit status;            *)
(*   SpecExtract  extract_rule_ids_from_xml applied to one content.        *)
(***************************************************************************)
EXTENDS Integers, Sequences, FiniteSets, TLC

VARIABLES
    pc,                 \* position of main(): "start", "build", "index", "check", "exit"
    exit_code,          \* process exit status once pc = "exit" (0 success, 1 failure)
    refTree,            \* origin/main: rule path -> content, or Absent
    changed_files,      \* main(): changed_files, the (status, path) pairs
    xml_files,          \* get_rule_ids_per_file_in_main: files still to index
    rule_id_to_files,   \* the reference index: rule id -> set of origin/main paths
    pos,                \* main(): position of the for loop in changed_files
    out,                \* the diagnostics printed by the last step
    last,               \* what the loop saw in the file it examined last
    log,                \* the files examined so far: status, path, declared ids
    x_pc,               \* SpecExtract: "input", "returned" ("off" in Spec)
    x_content,          \* SpecExtract: the content handed to the extractor
    x_result            \* SpecExtract: the list the extractor returned

vars == <<pc, exit_code, refTree, changed_files, xml_files, rule_id_to_files,
          pos, out, last, log, x_pc, x_content, x_result>>

-----------------------------------------------------------------------------
(* Bounds of the model *)

\* rule elements in a working-tree file
MaxRules == 2
\* elements of a content handed to the extractor in SpecExtract
MaxElems == 2
\* characters of an id attribute in SpecExtract
MaxLen == 1

-----------------------------------------------------------------------------
(* Generic helpers *)

Range(s) == {s[i] : i \in DOMAIN s}

SeqsUpTo(S, n) == UNION {[1..k -> S] : k \in 0..n}

\* Python: sorted(iterable of int), for a list
sorted(s) == SortSeq(s, LAMBDA a, b : a < b)

\* Python: sorted(set of int)
RECURSIVE sortedSet(_)
sortedSet(S) ==
    IF S = {} THEN <<>>
    ELSE LET m == CHOOSE x \in S : \A y \in S : x <= y
         IN  <<m>> \o sortedSet(S \ {m})

\* Python: Counter(rule_ids)[x]
Count(s, x) == Cardinality({i \in DOMAIN s : s[i] = x})

-----------------------------------------------------------------------------
(* Strings: an attribute value is a sequence of characters.                *)
(* "sup2" is U+00B2 SUPERSCRIPT TWO: str.isdigit() is true of it, int()    *)
(* raises ValueError on it.                                                *)

\* the characters c with c.isdecimal(): the digits int() reads
DecimalChars == {"0", "1", "2", "3", "4", "5", "6", "7", "8", "9"}

\* the characters c with c.isdigit(): the decimal digits and the Unicode
\* digits that are not decimal, here the superscript two
IsDigitChars == DecimalChars \cup {"sup2"}

\* Python: str.isdigit(): non-empty and every character a digit
isdigit(s) == Len(s) > 0 /\ \A i \in DOMAIN s : s[i] \in IsDigitChars

DigitValue(c) ==
    CASE c = "0" -> 0 [] c = "1" -> 1 [] c = "2" -> 2 [] c = "3" -> 3
      [] c = "4" -> 4 [] c = "5" -> 5 [] c = "6" -> 6 [] c = "7" -> 7
      [] c = "8" -> 8 [] c = "9" -> 9

\* Python: int(s) raises ValueError (for an s with s.isdigit())
IntRaises(s) == \E i \in DOMAIN s : s[i] \notin DecimalChars

RECURSIVE IntFrom(_, _, _)
IntFrom(s, i, acc) ==
    IF i > Len(s) THEN acc ELSE IntFrom(s, i + 1, acc * 10 + DigitValue(s[i]))

\* Python: int(s), base 10, for an s of decimal digits
int(s) == IntFrom(s, 1, 0)

-----------------------------------------------------------------------------
(* extract_rule_ids_from_xml.                                              *)
(* A content is [form, elems]: form "blank" (nothing but whitespace),      *)
(* "malformed" (no XML even inside <root>), or "xml"; elems are its        *)
(* elements in document order, each [tag, depth, has_id, id].              *)

\* root.findall(".//rule"): the rule elements at any depth, document order
findall_rule(elems) == SelectSeq(elems, LAMBDA e : e.tag = "rule")

\* one iteration of the for loop over the rule elements; acc = [ids, raised]
LoopBody(acc, rule) ==
    IF acc.raised THEN acc
    ELSE IF ~(rule.has_id /\ rule.id # <<>> /\ isdigit(rule.id)) THEN acc
    ELSE IF IntRaises(rule.id) THEN [acc EXCEPT !.raised = TRUE]
    ELSE [acc EXCEPT !.ids = Append(@, int(rule.id))]

RECURSIVE ForRules(_, _)
ForRules(acc, rules) ==
    IF rules = <<>> THEN acc
    ELSE ForRules(LoopBody(acc, Head(rules)), Tail(rules))

\* the list returned: what was appended before a raise is kept (ids is
\* returned after either except clause)
extract_rule_ids_from_xml(content) ==
    IF content.form = "blank" THEN <<>>
    ELSE IF content.form = "malformed" THEN <<>>
    ELSE ForRules([ids |-> <<>>, raised |-> FALSE], findall_rule(content.elems)).ids

-----------------------------------------------------------------------------
(* SpecExtract: the extractor on one content *)

XChars == {"0", "1", "a", "sup2"}

XAttrs == SeqsUpTo(XChars, MaxLen)

Depths == {1, 2}

XElements ==
    [tag : {"rule", "group"}, depth : Depths, has_id : {TRUE}, id : XAttrs]
    \cup [tag : {"rule", "group"}, depth : Depths, has_id : {FALSE}, id : {<<>>}]

\* document order of a forest: the first element is a child of <root>, an
\* element is at most one level below the element before it
IsForest(elems) ==
    /\ elems # <<>> => elems[1].depth = 1
    /\ \A i \in 1..(Len(elems) - 1) : elems[i + 1].depth <= elems[i].depth + 1

XContents ==
    {[form |-> "blank", elems |-> <<>>], [form |-> "malformed", elems |-> <<>>]}
    \cup {[form |-> "xml", elems |-> es] :
            es \in {s \in SeqsUpTo(XElements, MaxElems) : IsForest(s)}}

NoContent == [form |-> "blank", elems |-> <<>>]

-----------------------------------------------------------------------------
(* The repository: paths, origin/main, the working tree *)

\* a path is [dir, name, ext]: path.startswith("rules/") is dir = "rules",
\* path.endswith(".xml") is ext = "xml"
PathA == [dir |-> "rules", name |-> "a", ext |-> "xml"]

PathB == [dir |-> "rules", name |-> "b", ext |-> "xml"]

\* the rule files, in the order git lists them and sorted() sorts them
PathSeq == <<PathA, PathB>>

RulePaths == Range(PathSeq)

NonRulePaths == {[dir |-> "docs", name |-> "a", ext |-> "xml"],
                 [dir |-> "rules", name |-> "n", ext |-> "txt"]}

AllPaths == RulePaths \cup NonRulePaths

\* get_changed_rule_files line 27, get_rule_ids_per_file_in_main line 62
IsRuleFile(p) == p.dir = "rules" /\ p.ext = "xml"

\* Python: sorted(set of paths)
sortedPaths(S) == SelectSeq(PathSeq, LAMBDA p : p \in S)

\* the id attributes found in working-tree files
AttrPool == {<<"9", "9", "9", "9", "9">>,
             <<"1", "0", "0", "0", "0", "0">>,
             <<"1", "2", "0", "0", "0", "0">>,
             <<"1", "2", "0", "0", "0", "1">>}

\* the id attributes found in origin/main files: 100000 and 120001
RefAttr1 == <<"1", "0", "0", "0", "0", "0">>

RefAttr2 == <<"1", "2", "0", "0", "0", "1">>

RuleElem(a) == [tag |-> "rule", depth |-> 1, has_id |-> TRUE, id |-> a]

XmlOf(attrs) == [form |-> "xml", elems |-> [i \in DOMAIN attrs |-> RuleElem(attrs[i])]]

ContentsOver(pool, n) ==
    {[form |-> "blank", elems |-> <<>>], [form |-> "malformed", elems |-> <<>>]}
    \cup {XmlOf(s) : s \in (SeqsUpTo(pool, n) \ {<<>>})}

\* what path.read_text() gives: the content, or an exception
WorkFiles ==
    {[readable |-> FALSE, content |-> NoContent]}
    \cup [readable : {TRUE}, content : ContentsOver(AttrPool, MaxRules)]

\* a path of origin/main: absent, or present with one of these contents
RefFiles ==
    {[present |-> FALSE, content |-> NoContent]}
    \cup [present : {TRUE},
          content : {[form |-> "blank", elems |-> <<>>],
                     XmlOf(<<RefAttr1>>), XmlOf(<<RefAttr2>>),
                     XmlOf(<<RefAttr1, RefAttr2>>)}]

Statuses == {"A", "M", "D"}

\* the output of git diff --name-status: one line per changed path
DiffOutputs ==
    {d \in SeqsUpTo(Statuses \X AllPaths, Cardinality(AllPaths)) :
        \A i, j \in DOMAIN d : i # j => d[i][2] # d[j][2]}

NoLast == [status |-> "none", path |-> PathA, readable |-> FALSE,
           dev_ids |-> <<>>, main_ids |-> <<>>, warned |-> <<>>, ids |-> <<>>,
           conflicts |-> <<>>, checked |-> FALSE, fetched |-> "no",
           verdict |-> "none"]

-----------------------------------------------------------------------------
(* The helpers of main() *)

\* program constants of validate_rule_id_range
RangeLo == 100000

RangeHi == 120000

\* the bug "the bounds of the range are excluded"
validate_rule_id_range_exclusive(rule_ids) ==
    sorted(SelectSeq(rule_ids, LAMBDA r : ~(RangeLo < r /\ r < RangeHi)))

\* validate_rule_id_range: the list it prints, [] when it prints nothing
validate_rule_id_range(rule_ids) ==
    sorted(SelectSeq(rule_ids, LAMBDA r : ~(RangeLo <= r /\ r <= RangeHi)))

\* the bug "count > 2": an id declared twice is not reported
detect_duplicates_above_two(rule_ids) ==
    LET firsts == {i \in DOMAIN rule_ids :
                     \A j \in 1..(i - 1) : rule_ids[j] # rule_ids[i]}
    IN  SelectSeq([k \in 1..Cardinality(firsts) |->
                     rule_ids[CHOOSE i \in firsts :
                                Cardinality({j \in firsts : j <= i}) = k]],
                  LAMBDA r : Count(rule_ids, r) > 2)

\* detect_duplicates: the keys of Counter(rule_ids), in first-occurrence
\* order, whose count is above 1
detect_duplicates(rule_ids) ==
    LET firsts == {i \in DOMAIN rule_ids :
                     \A j \in 1..(i - 1) : rule_ids[j] # rule_ids[i]}
        keys == [k \in 1..Cardinality(firsts) |->
                   rule_ids[CHOOSE i \in firsts :
                              Cardinality({j \in firsts : j <= i}) = k]]
    IN  SelectSeq(keys, LAMBDA r : Count(rule_ids, r) > 1)

\* print_conflicts: per conflicting id, in sorted order, the sorted files of
\* rule_id_to_files.get(rule_id, set())
print_conflicts(conflicting_ids, rule_id_to_files_main) ==
    LET ids == sortedSet(conflicting_ids)
    IN  [k \in DOMAIN ids |->
           [rule_id |-> ids[k],
            files |-> sortedPaths(IF ids[k] \in DOMAIN rule_id_to_files_main
                                  THEN rule_id_to_files_main[ids[k]]
                                  ELSE {})]]

\* the bug "only the first id of the file is compared with the index"
AddedConflictsFirstOnly(dev_ids, rule_id_to_files_main) ==
    {dev_ids[1]} \cap DOMAIN rule_id_to_files_main

\* main line 146: set(dev_ids) & set(rule_id_to_files_main.keys())
AddedConflicts(dev_ids, rule_id_to_files_main) ==
    Range(dev_ids) \cap DOMAIN rule_id_to_files_main

\* main lines 160-161: (set(dev_ids) - set(main_ids)) & the keys
ModifiedConflicts(dev_ids, main_ids, rule_id_to_files_main) ==
    (Range(dev_ids) \ Range(main_ids)) \cap DOMAIN rule_id_to_files_main

\* run_git_command(["git", "show", "origin/main:<file>"]): the command fails
\* when the path is not in origin/main, and may fail for a path that is
\* (git_ok = FALSE); a failure ends in sys.exit(1) inside run_git_command,
\* so no CalledProcessError reaches the caller
git_show(tree, path, git_ok) ==
    IF tree[path].present /\ git_ok
    THEN [exit |-> FALSE, stdout |-> tree[path].content]
    ELSE [exit |-> TRUE, stdout |-> NoContent]

\* get_rule_ids_from_main_version: the except clause is never entered. The
\* command is taken to fail here exactly when origin/main has no such path
get_rule_ids_from_main_version(tree, path) ==
    LET shown == git_show(tree, path, TRUE)
    IN  IF shown.exit
        THEN [exit |-> TRUE, ids |-> <<>>]
        ELSE [exit |-> FALSE, ids |-> extract_rule_ids_from_xml(shown.stdout)]

\* the loop body of get_rule_ids_per_file_in_main for one file:
\* rule_id_to_files[rule_id].add(file) for every extracted id
AddToIndex(index, file, rule_ids) ==
    [r \in DOMAIN index \cup Range(rule_ids) |->
        (IF r \in DOMAIN index THEN index[r] ELSE {})
        \cup (IF r \in Range(rule_ids) THEN {file} ELSE {})]

EmptyIndex == [r \in {} |-> {}]

-----------------------------------------------------------------------------
(* One iteration of the for loop of main() *)

Step(exit, verdict, dev_ids, main_ids, warned, ids, conflicts, checked, fetched) ==
    [exit |-> exit, verdict |-> verdict, dev_ids |-> dev_ids, main_ids |-> main_ids,
     warned |-> warned, ids |-> ids, conflicts |-> conflicts,
     checked |-> checked, fetched |-> fetched]

\* main lines 144-151, status "A". checked: the file's ids were compared
\* with the reference index; fetched: the file's origin/main version was
\* asked for ("no", "ok", "failed")
ReconcileAdded(dev_ids, warned, index) ==
    LET conflicting_ids == AddedConflicts(dev_ids, index)
    IN  IF conflicting_ids # {}
        THEN Step(TRUE, "conflict", dev_ids, <<>>, warned, <<>>,
                  print_conflicts(conflicting_ids, index), TRUE, "no")
        ELSE Step(FALSE, "no_conflicts", dev_ids, <<>>, warned, <<>>, <<>>, TRUE, "no")

\* main lines 153-167, status "M"
ReconcileModified(path, dev_ids, warned, tree, index) ==
    LET main == get_rule_ids_from_main_version(tree, path)
        main_ids == main.ids
        conflicting_ids == ModifiedConflicts(dev_ids, main_ids, index)
    IN  IF main.exit
        THEN Step(TRUE, "git_failed", dev_ids, <<>>, warned, <<>>, <<>>, FALSE, "failed")
        ELSE IF Range(dev_ids) = Range(main_ids)
        THEN Step(FALSE, "unchanged", dev_ids, main_ids, warned, <<>>, <<>>, FALSE, "ok")
        ELSE IF conflicting_ids # {}
        THEN Step(TRUE, "conflict", dev_ids, main_ids, warned, <<>>,
                  print_conflicts(conflicting_ids, index), TRUE, "ok")
        ELSE Step(FALSE, "no_conflicts", dev_ids, main_ids, warned, <<>>, <<>>, TRUE, "ok")

\* the bug "a deleted file is reconciled like an added one"
ReconcileDeletedAsAdded(status, path, dev_ids, warned, tree, index) ==
    IF status = "A" \/ status = "D" THEN ReconcileAdded(dev_ids, warned, index)
    ELSE IF status = "M" THEN ReconcileModified(path, dev_ids, warned, tree, index)
    ELSE Step(FALSE, "other", dev_ids, <<>>, warned, <<>>, <<>>, FALSE, "no")

\* main lines 144-171: the reconciliation by status
Reconcile(status, path, dev_ids, warned, tree, index) ==
    IF status = "A" THEN ReconcileAdded(dev_ids, warned, index)
    ELSE IF status = "M" THEN ReconcileModified(path, dev_ids, warned, tree, index)
    ELSE IF status = "D"
    THEN Step(FALSE, "deleted", dev_ids, <<>>, warned, <<>>, <<>>, FALSE, "no")
    ELSE Step(FALSE, "other", dev_ids, <<>>, warned, <<>>, <<>>, FALSE, "no")

\* main lines 122-171: the whole iteration for (status, path), whose
\* working-tree file is w
Iteration(status, path, w, tree, index) ==
    IF ~w.readable
    THEN Step(FALSE, "unreadable", <<>>, <<>>, <<>>, <<>>, <<>>, FALSE, "no")
    ELSE
        LET dev_ids == extract_rule_ids_from_xml(w.content)
            warned == validate_rule_id_range(dev_ids)
            duplicates == detect_duplicates(dev_ids)
        IN  IF dev_ids = <<>>
            THEN Step(FALSE, "no_ids", <<>>, <<>>, <<>>, <<>>, <<>>, FALSE, "no")
            ELSE IF duplicates # <<>>
            THEN Step(TRUE, "duplicate", dev_ids, <<>>, warned, sorted(duplicates),
                      <<>>, FALSE, "no")
            ELSE Reconcile(status, path, dev_ids, warned, tree, index)

-----------------------------------------------------------------------------
(* Spec: the run of main() *)

Init ==
    /\ pc = "start"
    /\ exit_code = 0
    /\ refTree \in [RulePaths -> RefFiles]
    /\ changed_files = <<>>
    /\ xml_files = <<>>
    /\ rule_id_to_files = EmptyIndex
    /\ pos = 0
    /\ out = [kind |-> "none", cmd |-> "none"]
    /\ last = NoLast
    /\ log = <<>>
    /\ x_pc = "off"
    /\ x_content = NoContent
    /\ x_result = <<>>

Exit(code, kind, cmd) ==
    /\ pc' = "exit"
    /\ exit_code' = code
    /\ out' = [kind |-> kind, cmd |-> cmd]

\* the order of git ls-tree -r --name-only
TreeOrder == <<[dir |-> "docs", name |-> "a", ext |-> "xml"], PathA, PathB,
               [dir |-> "rules", name |-> "n", ext |-> "txt"]>>

\* main lines 113-116 with get_changed_rule_files: git diff fails (exit 1),
\* or its lines are filtered to the rule files; none changed is a success
GetChangedRuleFiles ==
    /\ pc = "start"
    /\ \E ok \in BOOLEAN, output \in DiffOutputs :
         LET files == SelectSeq(output, LAMBDA e : IsRuleFile(e[2]))
         IN  IF ~ok
             THEN /\ Exit(1, "git_failed", "diff")
                  /\ UNCHANGED changed_files
             ELSE IF files = <<>>
             THEN /\ Exit(0, "no_changes", "none")
                  /\ UNCHANGED changed_files
             ELSE /\ pc' = "build"
                  /\ changed_files' = files
                  /\ UNCHANGED <<exit_code, out>>
    /\ UNCHANGED <<refTree, xml_files, rule_id_to_files, pos, last, log,
                   x_pc, x_content, x_result>>

\* get_rule_ids_per_file_in_main lines 60-64: git fetch and git ls-tree (a
\* failure of either exits 1), the listing filtered to the rule files
ListMainRuleFiles ==
    /\ pc = "build"
    /\ \E ok \in BOOLEAN, others \in SUBSET NonRulePaths :
         LET present == {p \in RulePaths : refTree[p].present}
             listing == SelectSeq(TreeOrder, LAMBDA p : p \in present \cup others)
         IN  IF ~ok
             THEN /\ Exit(1, "git_failed", "ls_tree")
                  /\ UNCHANGED <<xml_files, rule_id_to_files>>
             ELSE /\ pc' = "index"
                  /\ xml_files' = SelectSeq(listing, IsRuleFile)
                  /\ rule_id_to_files' = EmptyIndex
                  /\ UNCHANGED <<exit_code, out>>
    /\ UNCHANGED <<refTree, changed_files, pos, last, log, x_pc, x_content, x_result>>

\* get_rule_ids_per_file_in_main lines 65-73, one file: a failing git show
\* exits 1 in run_git_command (SystemExit passes both except clauses)
IndexFile ==
    /\ pc = "index"
    /\ xml_files # <<>>
    /\ \E git_ok \in BOOLEAN :
         LET file == Head(xml_files)
             shown == git_show(refTree, file, git_ok)
         IN  IF shown.exit
             THEN /\ Exit(1, "git_failed", "show_index")
                  /\ UNCHANGED <<xml_files, rule_id_to_files>>
             ELSE /\ rule_id_to_files' =
                        AddToIndex(rule_id_to_files, file,
                                   extract_rule_ids_from_xml(shown.stdout))
                  /\ xml_files' = Tail(xml_files)
                  /\ UNCHANGED <<pc, exit_code, out>>
    /\ UNCHANGED <<refTree, changed_files, pos, last, log, x_pc, x_content, x_result>>

\* get_rule_ids_per_file_in_main line 74, main lines 118-121
IndexBuilt ==
    /\ pc = "index"
    /\ xml_files = <<>>
    /\ pc' = "check"
    /\ pos' = 1
    /\ UNCHANGED <<exit_code, refTree, changed_files, xml_files, rule_id_to_files,
                   out, last, log, x_pc, x_content, x_result>>

\* main lines 121-171: one changed file, from reading it to the next file
\* or to sys.exit(1)
CheckFile ==
    /\ pc = "check"
    /\ pos <= Len(changed_files)
    /\ \E w \in WorkFiles :
         \E step \in {Iteration(changed_files[pos][1], changed_files[pos][2], w,
                                refTree, rule_id_to_files)} :
             /\ last' = [status |-> changed_files[pos][1],
                         path |-> changed_files[pos][2],
                         readable |-> w.readable,
                         dev_ids |-> step.dev_ids, main_ids |-> step.main_ids,
                         warned |-> step.warned, ids |-> step.ids,
                         conflicts |-> step.conflicts, checked |-> step.checked,
                         fetched |-> step.fetched, verdict |-> step.verdict]
             /\ log' = Append(log, [status |-> changed_files[pos][1],
                                    path |-> changed_files[pos][2],
                                    ids |-> Range(step.dev_ids)])
             /\ IF step.exit
                THEN /\ Exit(1, step.verdict, IF step.verdict = "git_failed"
                                              THEN "show_main" ELSE "none")
                     /\ UNCHANGED pos
                ELSE /\ pos' = pos + 1
                     /\ UNCHANGED <<pc, exit_code, out>>
    /\ UNCHANGED <<refTree, changed_files, xml_files, rule_id_to_files,
                   x_pc, x_content, x_result>>

\* main line 173: every changed file was examined
AllPassed ==
    /\ pc = "check"
    /\ pos > Len(changed_files)
    /\ Exit(0, "all_passed", "none")
    /\ UNCHANGED <<refTree, changed_files, xml_files, rule_id_to_files, pos, last,
                   log, x_pc, x_content, x_result>>

Next ==
    \/ GetChangedRuleFiles
    \/ ListMainRuleFiles
    \/ IndexFile
    \/ IndexBuilt
    \/ CheckFile
    \/ AllPassed

Spec == Init /\ [][Next]_vars

-----------------------------------------------------------------------------
(* SpecExtract: extract_rule_ids_from_xml on one content *)

InitExtract ==
    /\ pc = "off"
    /\ exit_code = 0
    /\ refTree = [p \in RulePaths |-> [present |-> FALSE, content |-> NoContent]]
    /\ changed_files = <<>>
    /\ xml_files = <<>>
    /\ rule_id_to_files = EmptyIndex
    /\ pos = 0
    /\ out = [kind |-> "none", cmd |-> "none"]
    /\ last = NoLast
    /\ log = <<>>
    /\ x_pc = "input"
    /\ x_content \in XContents
    /\ x_result = <<>>

Extract ==
    /\ x_pc = "input"
    /\ x_result' = extract_rule_ids_from_xml(x_content)
    /\ x_pc' = "returned"
    /\ UNCHANGED <<pc, exit_code, refTree, changed_files, xml_files, rule_id_to_files,
                   pos, out, last, log, x_content>>

NextExtract == Extract

SpecExtract == InitExtract /\ [][NextExtract]_vars
-----------------------------------------------------------------------------
(* Vocabulary of the claims, stated on the repository and not on the       *)
(* program's own variables where the claim speaks of the repository        *)

\* the run ended with exit status 0 / 1
Succeeded == pc = "exit" /\ exit_code = 0

Failed == pc = "exit" /\ exit_code = 1

\* the loop has examined a file; last describes it
Examined == log # <<>>

\* the identifiers the origin/main version of p declares (none when absent)
RefIds(p) ==
    IF refTree[p].present
    THEN Range(extract_rule_ids_from_xml(refTree[p].content))
    ELSE {}

\* the origin/main files that declare r
Owners(r) == {p \in RulePaths : r \in RefIds(p)}

\* the identifiers some origin/main file declares
KnownIds == UNION {RefIds(p) : p \in RulePaths}

HasRepeat(ids) == \E i, j \in DOMAIN ids : i # j /\ ids[i] = ids[j]

\* the file examined last was readable and declares identifiers, none twice
CleanFile(status) ==
    /\ Examined
    /\ last.status = status
    /\ last.readable
    /\ last.dev_ids # <<>>
    /\ ~HasRepeat(last.dev_ids)

\* the run failed with a conflict report (at the file examined last)
ConflictFailure == Failed /\ out.kind = "conflict"

\* the identifiers a logged changed file newly introduces
NewlyIntroduced(e) ==
    IF e.status = "A" THEN e.ids
    ELSE IF e.status = "M" THEN e.ids \ RefIds(e.path)
    ELSE {}

\* the file examined last fails a hard check: an identifier repeated, or a
\* newly claimed identifier that origin/main knows
FailsHardCheck ==
    /\ Examined
    /\ last.readable
    /\ \/ HasRepeat(last.dev_ids)
       \/ last.status = "A" /\ Range(last.dev_ids) \cap KnownIds # {}
       \/ last.status = "M"
          /\ (Range(last.dev_ids) \ RefIds(last.path)) \cap KnownIds # {}

-----------------------------------------------------------------------------
(* The claims *)

\* C1: when the run succeeds, no identifier newly introduced by a changed
\* file (all ids of an Added file, the ids of a Modified file that its
\* origin/main version lacks) is declared by a different rule file, be it a
\* file of origin/main or another changed file.
C1_NoSharedNewId ==
    Succeeded =>
        \A i \in DOMAIN log : \A r \in NewlyIntroduced(log[i]) :
            /\ \A q \in RulePaths \ {log[i].path} : r \notin RefIds(q)
            /\ \A j \in DOMAIN log \ {i} :
                  log[j].status # "D" => r \notin log[j].ids

\* C2: a readable Added file with identifiers, none repeated, fails the run
\* with a conflict exactly when one of its identifiers is known in
\* origin/main; the report then lists exactly those identifiers, each with
\* exactly the origin/main files that declare it; otherwise no conflict is
\* reported for the file.
C2_AddedConflict ==
    CleanFile("A") =>
        LET hit == Range(last.dev_ids) \cap KnownIds
        IN  /\ ConflictFailure <=> hit # {}
            /\ {c.rule_id : c \in Range(last.conflicts)} = hit
            /\ \A c \in Range(last.conflicts) : Range(c.files) = Owners(c.rule_id)
            /\ hit = {} => last.verdict = "no_conflicts" /\ ~Failed

\* C2 witness: an Added file that origin/main does not have fails on two
\* identifiers, one of which it shares with a single origin/main file
C2_Witness ==
    /\ CleanFile("A")
    /\ ~refTree[last.path].present
    /\ ConflictFailure
    /\ Len(last.conflicts) = 2
    /\ \E c \in Range(last.conflicts) : Len(c.files) = 1

\* C3: a readable Modified file with identifiers, none repeated, fails the
\* run with a conflict exactly when an identifier it declares and its
\* origin/main version does not (all of them when origin/main has no such
\* path) is known in origin/main; a file whose identifier set is that of its
\* origin/main version passes.
C3_ModifiedConflict ==
    CleanFile("M") =>
        /\ ConflictFailure <=>
              (Range(last.dev_ids) \ RefIds(last.path)) \cap KnownIds # {}
        /\ Range(last.dev_ids) = RefIds(last.path) => ~Failed

C5_UnfetchableSkipped ==
    ~(pc = "exit" /\ out.kind = "git_failed" /\ out.cmd = "show_index")

\* C6: for a Modified file whose path origin/main does not have, the failed
\* fetch is tolerated: the run is not aborted by it, mainIds is empty and
\* the file is reconciled with all of devIds.
C6_MissingMainTolerated ==
    (CleanFile("M") /\ ~refTree[last.path].present) =>
        /\ ~(Failed /\ out.kind = "git_failed")
        /\ last.main_ids = <<>>
        /\ ConflictFailure <=> Range(last.dev_ids) \cap KnownIds # {}

\* C7 as stated: a Deleted entry never makes the run fail, whatever content
\* is readable at its path.
C7_DeletedNeverFails ==
    (Examined /\ last.status = "D") => ~Failed

\* C7 amended: a Deleted entry gets no cross-file check (its identifiers are
\* not compared with the index, its origin/main version is not fetched, no
\* conflict is reported); it makes the run fail exactly when the content
\* readable at its path repeats an identifier.
C7_DeletedOnlyDuplicates ==
    (Examined /\ last.status = "D") =>
        /\ ~last.checked
        /\ last.fetched = "no"
        /\ last.conflicts = <<>>
        /\ ~ConflictFailure
        /\ Failed <=> (last.readable /\ HasRepeat(last.dev_ids))

\* C7 witness: a Deleted entry whose readable content declares an
\* identifier known in origin/main passes
C7_Witness ==
    /\ Examined
    /\ last.status = "D"
    /\ last.readable
    /\ Range(last.dev_ids) \cap KnownIds # {}
    /\ ~HasRepeat(last.dev_ids)
    /\ ~Failed

\* C8: the changed files are examined one at a time in change-set order; a
\* file that fails a hard check ends the run at once with a failure, so it
\* is the last file examined; the run succeeds exactly when no rule file
\* changed or every changed file was examined and none failed a hard check.
C8_FailFast ==
    /\ Len(log) <= Len(changed_files)
    /\ \A i \in DOMAIN log :
          log[i].status = changed_files[i][1] /\ log[i].path = changed_files[i][2]
    /\ FailsHardCheck => Failed
    /\ (pc = "exit" /\ out.cmd # "diff") =>
          (exit_code = 0 <=>
             \/ changed_files = <<>>
             \/ Len(log) = Len(changed_files) /\ ~FailsHardCheck)

\* C9: the range advisory warns of exactly the identifiers outside
\* [100000, 120000] and never decides the outcome: a failure at the file is
\* a duplicate, a conflict or a failed fetch, each with its own cause.
C9_RangeAdvisory ==
    (Examined /\ last.readable /\ last.dev_ids # <<>>) =>
        /\ Range(last.warned) =
              {r \in Range(last.dev_ids) : r < 100000 \/ r > 120000}
        /\ Failed =>
              \/ out.kind = "duplicate" /\ HasRepeat(last.dev_ids)
              \/ out.kind = "conflict" /\ Range(last.dev_ids) \cap KnownIds # {}
              \/ out.kind = "git_failed" /\ last.status = "M"
        /\ (~HasRepeat(last.dev_ids) /\ Range(last.dev_ids) \cap KnownIds = {}
            /\ last.fetched # "failed") => ~Failed

\* C9 witness: a file declaring 99999 and 120001 is warned of both and passes
C9_Witness ==
    /\ Examined
    /\ Range(last.dev_ids) = {99999, 120001}
    /\ Range(last.warned) = {99999, 120001}
    /\ last.verdict = "no_conflicts"
    /\ ~Failed

\* the rule elements whose id is present and made only of decimal digits
Conforming(e) ==
    /\ e.tag = "rule"
    /\ e.has_id
    /\ e.id # <<>>
    /\ \A i \in DOMAIN e.id : e.id[i] \in DecimalChars

\* their identifiers, in document order, repetitions kept
ConformingIds(content) ==
    LET kept == SelectSeq(content.elems, Conforming)
    IN  [k \in DOMAIN kept |-> int(kept[k].id)]

\* C10: for a parseable content the extractor returns, in document order and
\* with repetitions, exactly the identifiers of the rule elements (at any
\* depth) whose id is present and all digits; other rule elements are
\* skipped and change nothing for the rest.
C10_ExtractExact ==
    (x_pc = "returned" /\ x_content.form = "xml") =>
        x_result = ConformingIds(x_content)

====
